---------------------------- MODULE Spec2Model ----------------------------
(***************************************************************************)
(* Model of src/app.py: the GEO keyword search -> accession resolution ->   *)
(* PubMed link fetch -> NCT/date extraction -> date filter -> export        *)
(* pipeline that runs when the "Run Search" button is pressed.              *)
(*                                                                         *)
(* Text is modelled as sequences of one-character strings, so that the      *)
(* regular expressions, join, split and strip of the source are computed    *)
(* and not assumed.  The remote services (Entrez esearch/efetch, the GEO    *)
(* landing page, the PubMed page) are nondeterministic: every call either   *)
(* returns one of a small set of answers or fails in one of the ways the    *)
(* source distinguishes.                                                    *)
(***************************************************************************)
EXTENDS Integers, Sequences, FiniteSets, TLC

(***************************************************************************)
(* Bounds of the model (not program constants).                            *)
(***************************************************************************)
MaxPageSize == 2      \* page sizes 1..MaxPageSize besides the default of 100
MaxPages == 2         \* total counts up to MaxPages full pages and one more result
MaxBatchSize == 2     \* batch sizes 1..MaxBatchSize besides the default of 50
MaxLinks == 2         \* LiteratureLink records per list, when the extractor is called alone
MaxRows == 2          \* detail records per table, when the filter is called alone

(***************************************************************************)
(* Program constants.                                                      *)
(***************************************************************************)
DefaultMaxResults == 100   \* fetch_all_geo_accessions(max_results=100)
SearchRetries == 3         \* search_geo_accessions(retries=3)
SearchDelay == 2           \* search_geo_accessions(delay=2)
DetailRetries == 3         \* fetch_geo_accession_details(retries=3)
LinkRetries == 3           \* fetch_pubmed_data: retries = 3
MaxWorkers == 10           \* ThreadPoolExecutor(max_workers=10)
DefaultBatchSize == 50     \* process_pubmed_ids(batch_size=50)

(***************************************************************************)
(* Characters and the regular-expression classes the source uses.          *)
(***************************************************************************)
Digits == {"0", "1", "2", "3", "4", "5", "6", "7", "8", "9"}

Letters == {"a", "b", "c", "d", "e", "f", "g", "h", "i", "j", "k", "l", "m",
            "n", "o", "p", "q", "r", "s", "t", "u", "v", "w", "x", "y", "z",
            "A", "B", "C", "D", "E", "F", "G", "H", "I", "J", "K", "L", "M",
            "N", "O", "P", "Q", "R", "S", "T", "U", "V", "W", "X", "Y", "Z"}

\* \d
IsDigit(c) == c \in Digits

\* \w
IsWordChar(c) == c \in Digits \cup Letters \cup {"_"}

\* Code point order of the characters that occur in literature IDs.
Ord(c) ==
  CASE c = " " -> 32 [] c = "," -> 44
    [] c = "0" -> 48 [] c = "1" -> 49 [] c = "2" -> 50 [] c = "3" -> 51
    [] c = "4" -> 52 [] c = "5" -> 53 [] c = "6" -> 54 [] c = "7" -> 55
    [] c = "8" -> 56 [] c = "9" -> 57
    [] OTHER -> 127

\* s[i..j] as a sequence (empty when j < i).
Slice(s, i, j) == [k \in 1..(j - i + 1) |-> s[i + k - 1]]

\* Whether p occurs in s at position i.
MatchesAt(s, p, i) ==
  /\ i >= 1
  /\ i + Len(p) - 1 <= Len(s)
  /\ \A k \in 1..Len(p) : s[i + k - 1] = p[k]

\* Python's str < str: lexicographic by code point, a proper prefix first.
StrLess(a, b) ==
  \E k \in 1..(Len(b)) :
    /\ \A j \in 1..(k - 1) : j <= Len(a) /\ a[j] = b[j]
    /\ \/ k = Len(a) + 1
       \/ k <= Len(a) /\ Ord(a[k]) < Ord(b[k])

(***************************************************************************)
(* What the dataset repository can answer.                                 *)
(***************************************************************************)
\* record["IdList"] of one esearch page: UIDs, opaque to the program.
IdLists == {<<>>, <<"200000001">>, <<"200000001", "200000002">>}

\* record["Count"] when the page size is p: the counts at and just after each
\* multiple of the page size.
Totals(p) == {k * p + r : k \in 0..MaxPages, r \in {0, 1}}

\* max_results: the caller's page size.
PageSizes == (1..MaxPageSize) \cup {DefaultMaxResults}

GSE == <<"G", "S", "E">>

\* The text of an efetch answer, as the words of the text.
Blobs == {
  <<>>,
  <<GSE \o <<"1">>>>,
  <<GSE \o <<"2">>, <<"x">>, GSE \o <<"2">>>>,
  <<GSE \o <<"1">>, GSE \o <<"2">>>>,
  <<GSE, <<"G", "S", "1">>>> }

\* The longest prefix of s[i..] made of digits, at most n of them.
RECURSIVE DigitRun(_, _, _)
DigitRun(s, i, n) ==
  IF n = 0 \/ i > Len(s) \/ ~IsDigit(s[i]) THEN <<>>
  ELSE <<s[i]>> \o DigitRun(s, i + 1, n - 1)

\* re.findall(r"GSE\d{1,10}", word): the non-overlapping matches, left to right.
RECURSIVE FindAccessionsFrom(_, _)
FindAccessionsFrom(s, i) ==
  IF i > Len(s) THEN <<>>
  ELSE IF MatchesAt(s, GSE, i) /\ DigitRun(s, i + 3, 10) # <<>>
       THEN LET m == GSE \o DigitRun(s, i + 3, 10)
            IN  <<m>> \o FindAccessionsFrom(s, i + Len(m))
       ELSE FindAccessionsFrom(s, i + 1)

\* re.findall over the whole text: the matches of each word in turn.
RECURSIVE FindAccessions(_)
FindAccessions(data) ==
  IF data = <<>> THEN <<>>
  ELSE FindAccessionsFrom(Head(data), 1) \o FindAccessions(Tail(data))

Range(s) == {s[i] : i \in 1..Len(s)}

\* Whether a list holds some element at two positions.
HasRepeats(s) == \E i, j \in 1..Len(s) : i < j /\ s[i] = s[j]

\* Not a model of the code: lists over S in which an element may come twice.
ListsWithRepeats(S) == UNION {[1..n -> S] : n \in 0..(Cardinality(S) + 1)}

\* All orderings of a finite set: list(a_set) has an unspecified order.
Perms(S) ==
  {s \in [1..Cardinality(S) -> S] : \A i, j \in 1..Cardinality(S) : s[i] = s[j] => i = j}


(***************************************************************************)
(* Dates.  A Publication_Date cell holds a datetime.date, None or (after    *)
(* pandas coerced it) NaT; a date input holds a date or nothing.            *)
(***************************************************************************)
MkDate(y, m, d) == [k |-> "date", y |-> y, m |-> m, d |-> d]

None == [k |-> "None", y |-> 0, m |-> 0, d |-> 0]

NaT == [k |-> "NaT", y |-> 0, m |-> 0, d |-> 0]

\* datetime.date.__le__
DateLE(a, b) ==
  \/ a.y < b.y
  \/ a.y = b.y /\ a.m < b.m
  \/ a.y = b.y /\ a.m = b.m /\ a.d <= b.d

\* What st.date_input can hand to the script.
InputDates == {MkDate(2022, 1, 1), MkDate(2022, 12, 31), None}

\* What st.text_input can hand to the script.
Keywords == {<<>>, <<"c", "a", "n", "c", "e", "r">>}

(***************************************************************************)
(* State.                                                                  *)
(***************************************************************************)
VARIABLES
  pc,                 \* position of the script / of the stage function
  keyword,            \* st.text_input
  start_date,         \* st.date_input
  end_date,           \* st.date_input
  \* fetch_all_geo_accessions
  max_results,
  retstart,
  total_count,
  geo_ids,
  all_accessions,
  iterations,         \* history: iterations of the while loop so far
  first_count,        \* history: the first Count the search service reported
  count_stable,       \* history: the service reported the same Count every time
  page_results,       \* history: what the resolver returned for the pages so far
  \* search_geo_accessions
  s_attempt,
  s_requests,         \* history: the esearch requests of this call
  s_sleeps,           \* history: the time.sleep arguments of this call
  s_outcome,          \* history: how this call ended
  \* fetch_geo_accession_details
  id_list,
  d_attempt,
  accession_numbers,
  d_requests,         \* history: number of efetch requests of this call
  d_sleeps,           \* history: the time.sleep arguments of this call
  d_outcome,          \* history: how this call ended
  \* fetch_pubmed_ids_from_geo
  accession_list,
  t_state,            \* per task: "queued", "running" or "done"
  t_attempt,
  t_requests,         \* history: number of requests.get calls of the task
  t_sleeps,           \* history: the time.sleep arguments of the task
  t_outcome,          \* history: how the task ended
  t_result,
  t_page,             \* history: the anchors of the page the task received
  last_done,          \* history: the task that completed last (0: none yet)
  results,
  progress_bar,       \* the <<numerator, denominator>> last given to progress_bar.progress
  status_text,        \* the accession last named by status_text.text
  \* process_pubmed_ids
  batch_size,
  pubmed_ids,
  p_i,                \* the outer loop's i: offset of the current batch
  p_j,                \* the inner loop's j: items of the batch already processed
  p_results,
  p_fetched,          \* history: the IDs fetch_pubmed_html was called with
  p_progress,         \* history: the <<numerator, denominator>> of each progress report
  p_html,             \* history: what fetch_pubmed_html returned for each fetched ID
  \* Run Search handler
  accessions,
  metadata,
  details,            \* the list process_pubmed_ids returned
  nct_df,
  filtered_nct_df,
  db,                 \* the tables written to combined_data.db
  \* history of the run
  first_page,         \* whether the first search page was "empty" or "nonempty"
  link_failed,        \* the accessions whose link fetch used up its retries
  dup_seen            \* an accession was found more than once during the search
                      \* (kept until the next stage begins)

stage1_locals == <<max_results, retstart, total_count, geo_ids, all_accessions,
                   iterations, first_count, count_stable, page_results>>

search_locals == <<s_attempt, s_requests, s_sleeps, s_outcome>>

details_locals == <<id_list, d_attempt, accession_numbers, d_requests, d_sleeps,
                    d_outcome>>

link_locals == <<accession_list, t_state, t_attempt, t_requests, t_sleeps, t_outcome,
                 t_result, t_page, last_done, results, progress_bar, status_text>>

inputs == <<keyword, start_date, end_date>>

history == <<first_page, link_failed, dup_seen>>

proc_locals == <<batch_size, pubmed_ids, p_i, p_j, p_results, p_fetched, p_progress,
                 p_html>>

\* What the first stage leaves alone.
not_stage1 == <<inputs, link_failed, link_locals, metadata, proc_locals, details, nct_df, filtered_nct_df, db>>

\* What the second stage leaves alone.
not_stage2 == <<inputs, first_page, stage1_locals, search_locals, details_locals, accessions,
                proc_locals, details, nct_df, filtered_nct_df, db>>

\* What the third stage writes only when it returns, or never.
after_stage3 == <<details, nct_df, filtered_nct_df, db>>

\* What the third stage leaves alone.
not_stage3 == <<inputs, history, stage1_locals, search_locals, details_locals, accessions,
                link_locals, metadata>>

vars == <<pc, inputs, history, stage1_locals, search_locals, details_locals, link_locals,
          proc_locals, accessions, metadata, details, nct_df, filtered_nct_df, db>>

\* The value of a local that is not in scope.
NoInt == 0

\* No Count reported yet.
NoCount == NoInt - 1

\* No page resolved yet: the union of the resolver's results, and whether a
\* resolver call failed.
NoPages == [accessions |-> {}, failed |-> FALSE]

\* The locals of search_geo_accessions are out of scope.
SearchLocalsGone(a, r, s, o) == a = 0 /\ r = <<>> /\ s = <<>> /\ o = "none"

\* The locals of fetch_geo_accession_details are out of scope.
DetailsLocalsGone(l, a, n, r, s, o) ==
  l = <<>> /\ a = 0 /\ n = {} /\ r = 0 /\ s = <<>> /\ o = "none"

\* The locals of fetch_pubmed_ids_from_geo are out of scope.
LinkLocalsGone(l, st, a, r, s, o, res, pg, ld, out, bar, txt) ==
  /\ l = <<>> /\ st = <<>> /\ a = <<>> /\ r = <<>> /\ s = <<>> /\ o = <<>>
  /\ res = <<>> /\ pg = <<>> /\ ld = 0 /\ out = <<>> /\ bar = <<>> /\ txt = <<>>

\* The locals of process_pubmed_ids are out of scope.
ProcLocalsGone(b, ids, i, j, res, f, pr, h) ==
  /\ b = NoInt /\ ids = <<>> /\ i = 0 /\ j = 0 /\ res = <<>> /\ f = <<>> /\ pr = <<>>
  /\ h = <<>>

InitLocals ==
  /\ max_results = NoInt /\ retstart = NoInt /\ total_count = NoInt
  /\ geo_ids = <<>> /\ all_accessions = {} /\ iterations = 0
  /\ first_count = NoCount /\ count_stable = TRUE /\ page_results = NoPages
  /\ SearchLocalsGone(s_attempt, s_requests, s_sleeps, s_outcome)
  /\ DetailsLocalsGone(id_list, d_attempt, accession_numbers, d_requests, d_sleeps,
                       d_outcome)
  /\ LinkLocalsGone(accession_list, t_state, t_attempt, t_requests, t_sleeps,
                    t_outcome, t_result, t_page, last_done, results, progress_bar,
                    status_text)
  /\ ProcLocalsGone(batch_size, pubmed_ids, p_i, p_j, p_results, p_fetched, p_progress,
                    p_html)
  /\ accessions = <<>>
  /\ metadata = <<>>
  /\ details = <<>>
  /\ nct_df = <<>>
  /\ filtered_nct_df = <<>>
  /\ db = [geo_data |-> <<>>, pubmed_data |-> <<>>, nct_data |-> <<>>, saved |-> FALSE]
  /\ first_page = "none"
  /\ link_failed = {}
  /\ dup_seen = FALSE

Init ==
  /\ pc = "idle"
  /\ keyword = <<>> /\ start_date = None /\ end_date = None
  /\ InitLocals

(***************************************************************************)
(* search_geo_accessions (lines 22-35).                                    *)
(***************************************************************************)
\* Not a model of the code: one attempt more than retries.
SearchExhaustedLate(attempt) == attempt + 1 > SearchRetries

\* range(retries) is exhausted after the attempt with index retries - 1.
SearchExhausted(attempt) == attempt + 1 >= SearchRetries

\* Entry: the for loop starts at attempt 0.
SearchCall ==
  /\ pc = "loop_top"
  /\ iterations' = iterations + 1
  /\ s_attempt' = 0
  /\ s_requests' = <<>>
  /\ s_sleeps' = <<>>
  /\ s_outcome' = "none"
  /\ pc' = "esearch"
  /\ UNCHANGED <<first_page, dup_seen, not_stage1, page_results, max_results, retstart, total_count, geo_ids, all_accessions,
                 first_count, count_stable, details_locals, accessions>>

TheRequest == [term |-> keyword, retmax |-> max_results, retstart |-> retstart]

\* Lines 25-28: the request succeeds and the page is returned at once.
EsearchOk ==
  /\ pc = "esearch"
  /\ \E ids \in IdLists, n \in Totals(max_results) :
       /\ geo_ids' = ids
       /\ total_count' = n
       /\ first_count' = IF first_count = NoCount THEN n ELSE first_count
       /\ count_stable' = (count_stable /\ first_count \in {NoCount, n})
  /\ s_requests' = Append(s_requests, TheRequest)
  /\ s_outcome' = "ok"
  /\ pc' = "searched"
  /\ UNCHANGED <<first_page, dup_seen, not_stage1, page_results, max_results, retstart, all_accessions, iterations,
                 s_attempt, s_sleeps, details_locals, accessions>>

\* Lines 29-31: RuntimeError; warn, sleep(delay), next attempt; after the last
\* attempt the loop is exhausted and line 35 returns [], 0.
EsearchRuntimeError ==
  /\ pc = "esearch"
  /\ s_requests' = Append(s_requests, TheRequest)
  /\ s_sleeps' = Append(s_sleeps, SearchDelay)
  /\ IF SearchExhausted(s_attempt)
       THEN /\ geo_ids' = <<>>
            /\ total_count' = 0
            /\ s_outcome' = "exhausted"
            /\ pc' = "searched"
            /\ UNCHANGED s_attempt
       ELSE /\ s_attempt' = s_attempt + 1
            /\ UNCHANGED <<geo_ids, total_count, s_outcome, pc>>
  /\ UNCHANGED <<first_page, dup_seen, not_stage1, page_results, max_results, retstart, all_accessions, iterations, first_count,
                 count_stable,
                 details_locals, accessions>>

\* Lines 32-35: any other Exception; error, break, return [], 0.
EsearchUnexpected ==
  /\ pc = "esearch"
  /\ s_requests' = Append(s_requests, TheRequest)
  /\ geo_ids' = <<>>
  /\ total_count' = 0
  /\ s_outcome' = "unexpected"
  /\ pc' = "searched"
  /\ UNCHANGED <<first_page, dup_seen, not_stage1, page_results, max_results, retstart, all_accessions, iterations, first_count,
                 count_stable,
                 s_attempt, s_sleeps, details_locals, accessions>>

(***************************************************************************)
(* fetch_geo_accession_details (lines 38-56).                              *)
(***************************************************************************)
\* Not a model of the code: one attempt more than retries.
DetailExhaustedLate(attempt) == attempt + 1 > DetailRetries

\* range(retries) is exhausted after the attempt with index retries - 1.
DetailExhausted(attempt) == attempt + 1 >= DetailRetries

RECURSIVE Pow2(_)
Pow2(n) == IF n = 0 THEN 1 ELSE 2 * Pow2(n - 1)

\* Not a model of the code: a delay that grows by one instead of doubling.
BackoffLinear(attempt) == attempt + 1

\* time.sleep(2 ** attempt)
Backoff(attempt) == Pow2(attempt)

\* Lines 39-41: an empty id_list skips the loop and returns [].
DetailsEnter ==
  /\ pc = "details_call"
  /\ accession_numbers' = {}
  /\ d_attempt' = 0
  /\ d_requests' = 0
  /\ d_sleeps' = <<>>
  /\ IF id_list # <<>>
       THEN pc' = "efetch" /\ d_outcome' = "none"
       ELSE pc' = "details_ret" /\ d_outcome' = "empty_input"
  /\ UNCHANGED <<first_page, dup_seen, not_stage1, stage1_locals, search_locals, id_list, accessions>>

\* Lines 43-49: one bulk fetch; the matches are added; break.
EfetchOk ==
  /\ pc = "efetch"
  /\ \E data \in Blobs :
       LET found_accessions == FindAccessions(data) IN
       /\ accession_numbers' = accession_numbers \cup Range(found_accessions)
       /\ dup_seen' = (dup_seen \/ HasRepeats(found_accessions))
  /\ d_requests' = d_requests + 1
  /\ d_outcome' = "ok"
  /\ pc' = "details_ret"
  /\ UNCHANGED <<first_page, not_stage1, stage1_locals, search_locals, id_list, d_attempt, d_sleeps,
                 accessions>>

\* Lines 50-52: IncompleteRead; warn, sleep(2 ** attempt), next attempt.
EfetchIncompleteRead ==
  /\ pc = "efetch"
  /\ d_requests' = d_requests + 1
  /\ d_sleeps' = Append(d_sleeps, Backoff(d_attempt))
  /\ IF DetailExhausted(d_attempt)
       THEN /\ d_outcome' = "exhausted"
            /\ pc' = "details_ret"
            /\ UNCHANGED d_attempt
       ELSE /\ d_attempt' = d_attempt + 1
            /\ UNCHANGED <<d_outcome, pc>>
  /\ UNCHANGED <<first_page, dup_seen, not_stage1, stage1_locals, search_locals, id_list, accession_numbers,
                 accessions>>

\* Lines 53-55: any other Exception; error, break.
EfetchUnexpected ==
  /\ pc = "efetch"
  /\ d_requests' = d_requests + 1
  /\ d_outcome' = "unexpected"
  /\ pc' = "details_ret"
  /\ UNCHANGED <<first_page, dup_seen, not_stage1, stage1_locals, search_locals, id_list, d_attempt,
                 accession_numbers, d_sleeps, accessions>>

(***************************************************************************)
(* fetch_all_geo_accessions (lines 58-74).                                 *)
(***************************************************************************)
\* Not a model of the code: the loop test with > for >=.
LoopDoneStrict(rs, tc) == rs > tc

\* Line 70: if retstart >= total_count: break
LoopDone(rs, tc) == rs >= tc

\* Lines 59-62.
FetchAllCall ==
  /\ pc = "s1_call"
  /\ \E p \in PageSizes : max_results' = p
  /\ all_accessions' = {}
  /\ retstart' = 0
  /\ total_count' = NoInt
  /\ geo_ids' = <<>>
  /\ iterations' = 0
  /\ first_count' = NoCount
  /\ count_stable' = TRUE
  /\ page_results' = NoPages
  /\ pc' = "loop_top"
  /\ UNCHANGED <<first_page, dup_seen, not_stage1, search_locals, details_locals, accessions>>

\* Lines 65-66: if not geo_ids: break
LoopBreakEmpty ==
  /\ pc = "searched"
  /\ geo_ids = <<>>
  /\ pc' = "s1_ret"
  /\ SearchLocalsGone(s_attempt', s_requests', s_sleeps', s_outcome')
  /\ first_page' = IF iterations = 1 THEN "empty" ELSE first_page
  /\ UNCHANGED <<dup_seen, not_stage1, stage1_locals, details_locals, accessions>>

\* Line 67: the call of fetch_geo_accession_details(geo_ids).
LoopResolve ==
  /\ pc = "searched"
  /\ geo_ids # <<>>
  /\ id_list' = geo_ids
  /\ pc' = "details_call"
  /\ SearchLocalsGone(s_attempt', s_requests', s_sleeps', s_outcome')
  /\ first_page' = IF iterations = 1 THEN "nonempty" ELSE first_page
  /\ UNCHANGED <<dup_seen, not_stage1, stage1_locals, d_attempt, accession_numbers,
                 d_requests, d_sleeps, d_outcome, accessions>>

\* Not a model of the code: the new page's accessions replace the earlier ones.
UpdateReplacing(all, new) == new

\* Line 68: all_accessions.update(accessions)
Update(all, new) == all \cup new

\* Lines 68-72: update, advance the offset, break or go round again.
LoopUpdate ==
  /\ pc = "details_ret"
  /\ all_accessions' = Update(all_accessions, accession_numbers)
  /\ page_results' = [accessions |-> page_results.accessions \cup accession_numbers,
                       failed |-> (page_results.failed
                                     \/ d_outcome \in {"exhausted", "unexpected"})]
  /\ dup_seen' = (dup_seen \/ all_accessions \cap accession_numbers # {})
  /\ retstart' = retstart + max_results
  /\ pc' = IF LoopDone(retstart + max_results, total_count) THEN "s1_ret" ELSE "loop_top"
  /\ DetailsLocalsGone(id_list', d_attempt', accession_numbers', d_requests', d_sleeps',
                       d_outcome')
  /\ UNCHANGED <<first_page, not_stage1, max_results, total_count, geo_ids, iterations, first_count,
                 count_stable, search_locals, accessions>>

\* Lines 73-74 and 188: return list(all_accessions); the locals go out of scope.
FetchAllReturn ==
  /\ pc = "s1_ret"
  /\ accessions' \in Perms(all_accessions)
  /\ max_results' = NoInt /\ retstart' = NoInt /\ total_count' = NoInt
  /\ geo_ids' = <<>> /\ all_accessions' = {} /\ iterations' = 0
  /\ first_count' = NoCount /\ count_stable' = TRUE /\ page_results' = NoPages
  /\ pc' = "s2_call"
  /\ UNCHANGED <<first_page, dup_seen, not_stage1, search_locals, details_locals>>

(***************************************************************************)
(* The script (lines 177-186): the widgets are read and the button tested. *)
(***************************************************************************)
RunSearch ==
  /\ pc = "idle"
  /\ \E kw \in Keywords, sd \in InputDates, ed \in InputDates :
       /\ keyword' = kw /\ start_date' = sd /\ end_date' = ed
       /\ pc' = IF kw = <<>> THEN "keyword_error"
                ELSE IF sd = None \/ ed = None THEN "date_error"
                ELSE "s1_call"
  /\ UNCHANGED <<history, stage1_locals, search_locals, details_locals, link_locals,
                 proc_locals, accessions, metadata, details, nct_df, filtered_nct_df, db>>

Stage1 ==
  \/ FetchAllCall \/ SearchCall
  \/ EsearchOk \/ EsearchRuntimeError \/ EsearchUnexpected
  \/ LoopBreakEmpty \/ LoopResolve
  \/ DetailsEnter \/ EfetchOk \/ EfetchIncompleteRead \/ EfetchUnexpected
  \/ LoopUpdate \/ FetchAllReturn

(***************************************************************************)
(* fetch_pubmed_ids_from_geo (lines 76-108).                               *)
(***************************************************************************)
PubmedSlash == <<"p", "u", "b", "m", "e", "d", "/">>

\* The href attributes of the <a> elements of a GEO landing page.
HrefGeo == <<"/", "g", "e", "o">>
HrefNoId == <<"/">> \o PubmedSlash
Href10 == <<"/">> \o PubmedSlash \o <<"1", "0">>
Href9 == <<"x", "/">> \o PubmedSlash \o <<"9">> \o <<"?", "a", "=", "1">>

LinkPages == {
  <<>>,
  <<HrefGeo, Href10>>,
  <<Href9, HrefNoId, Href10>>,
  <<Href10, Href10>> }

\* re.search(r'pubmed/(\d+)', href).group(1), or <<>> when there is no match:
\* the leftmost place where "pubmed/" is followed by a digit, and all the
\* digits that follow.
RECURSIVE SearchPubmedId(_, _)
SearchPubmedId(href, i) ==
  IF i > Len(href) THEN <<>>
  ELSE IF MatchesAt(href, PubmedSlash, i)
          /\ DigitRun(href, i + Len(PubmedSlash), Len(href)) # <<>>
       THEN DigitRun(href, i + Len(PubmedSlash), Len(href))
       ELSE SearchPubmedId(href, i + 1)

\* Lines 92-93: the list comprehension over the anchors.
RECURSIVE ExtractPubmedIds(_)
ExtractPubmedIds(anchors) ==
  IF anchors = <<>> THEN <<>>
  ELSE LET id == SearchPubmedId(Head(anchors), 1)
       IN  (IF id # <<>> THEN <<id>> ELSE <<>>) \o ExtractPubmedIds(Tail(anchors))

\* sep.join(parts)
RECURSIVE Join(_, _)
Join(parts, sep) ==
  IF parts = <<>> THEN <<>>
  ELSE IF Len(parts) = 1 THEN Head(parts)
  ELSE Head(parts) \o sep \o Join(Tail(parts), sep)

CommaSpace == <<",", " ">>

\* Line 89: if attempt == retries - 1
LinkExhausted(attempt) == attempt = LinkRetries - 1

Tasks == 1..Len(accession_list)

Running == {i \in Tasks : t_state[i] = "running"}

Completed == {i \in Tasks : t_state[i] = "done"}

GSE1 == GSE \o <<"1">>

\* The accessions the paginated search can return.  Their landing pages may
\* hold any of LinkPages and the request for them may fail; the landing page
\* of any other accession always arrives and holds one literature link.
SearchedAccessions == UNION {Range(FindAccessions(data)) : data \in Blobs}

\* response.text for an accession, when the request succeeds.
GeoPages(accession) ==
  IF accession \in SearchedAccessions THEN LinkPages ELSE {<<HrefGeo, Href10>>}

\* Whether requests.get / raise_for_status can raise for an accession.
MayFail(accession) == accession \in SearchedAccessions

\* Not a model of the code: a pool that runs every task it is given at once.
WorkerAlwaysFree == TRUE

\* ThreadPoolExecutor(max_workers=10): a task starts only on a free worker.
WorkerFree == Cardinality(Running) < MaxWorkers

\* Not a model of the code: the results taken from the last task backwards.
NextFromEnd == Len(accession_list) - Len(results)

\* executor.map yields the results in the order of its input.
NextInOrder == Len(results) + 1

\* Not a model of the code: the loop over the results left after one of them.
SomeCollected == Len(results) >= 1 \/ accession_list = <<>>

\* The iterator of executor.map is exhausted.
AllCollected == Len(results) = Len(accession_list)

\* Lines 96-101: executor.map submits one task per accession, in input order.
LinkCall ==
  /\ pc = "s2_call"
  /\ accession_list' = accessions
  /\ t_state' = [i \in 1..Len(accessions) |-> "queued"]
  /\ t_attempt' = [i \in 1..Len(accessions) |-> 0]
  /\ t_requests' = [i \in 1..Len(accessions) |-> 0]
  /\ t_sleeps' = [i \in 1..Len(accessions) |-> <<>>]
  /\ t_outcome' = [i \in 1..Len(accessions) |-> "none"]
  /\ t_result' = [i \in 1..Len(accessions) |-> [accession |-> <<>>, Pubmed_ID |-> <<>>]]
  /\ t_page' = [i \in 1..Len(accessions) |-> <<>>]
  /\ last_done' = 0
  /\ results' = <<>>
  /\ progress_bar' = <<0, 1>>
  /\ status_text' = <<>>
  /\ pc' = "s2_collect"
  /\ dup_seen' = FALSE
  /\ UNCHANGED <<link_failed, not_stage2, metadata>>

\* A free worker of the pool takes the oldest queued task.
TaskStart(i) ==
  /\ pc = "s2_collect"
  /\ t_state[i] = "queued"
  /\ \A j \in 1..(i - 1) : t_state[j] # "queued"
  /\ WorkerFree
  /\ t_state' = [t_state EXCEPT ![i] = "running"]
  /\ UNCHANGED <<link_failed, pc, dup_seen, not_stage2, metadata, accession_list, t_attempt, t_requests,
                 t_sleeps, t_outcome, t_result, t_page, last_done, results, progress_bar,
                 status_text>>

\* Lines 84-86 and 91-94: the page arrives; break, parse, return the record.
LinkFetchOk(i) ==
  /\ pc = "s2_collect"
  /\ t_state[i] = "running"
  /\ \E page \in GeoPages(accession_list[i]) :
       /\ t_page' = [t_page EXCEPT ![i] = page]
       /\ t_result' = [t_result EXCEPT ![i] =
                         [accession |-> accession_list[i],
                          Pubmed_ID |-> Join(ExtractPubmedIds(page), CommaSpace)]]
  /\ t_requests' = [t_requests EXCEPT ![i] = @ + 1]
  /\ t_outcome' = [t_outcome EXCEPT ![i] = "ok"]
  /\ t_state' = [t_state EXCEPT ![i] = "done"]
  /\ last_done' = i
  /\ UNCHANGED <<link_failed, pc, dup_seen, not_stage2, metadata, accession_list, t_attempt, t_sleeps,
                 results, progress_bar, status_text>>

\* Lines 87-90: the request fails; sleep(2 ** attempt); after the last attempt
\* the record with an empty Pubmed_ID is returned.
LinkFetchFail(i) ==
  /\ pc = "s2_collect"
  /\ t_state[i] = "running"
  /\ MayFail(accession_list[i])
  /\ t_requests' = [t_requests EXCEPT ![i] = @ + 1]
  /\ t_sleeps' = [t_sleeps EXCEPT ![i] = Append(@, Backoff(t_attempt[i]))]
  /\ IF LinkExhausted(t_attempt[i])
       THEN /\ t_result' = [t_result EXCEPT ![i] =
                             [accession |-> accession_list[i], Pubmed_ID |-> <<>>]]
            /\ t_outcome' = [t_outcome EXCEPT ![i] = "exhausted"]
            /\ t_state' = [t_state EXCEPT ![i] = "done"]
            /\ link_failed' = link_failed \cup {accession_list[i]}
            /\ last_done' = i
            /\ UNCHANGED t_attempt
       ELSE /\ t_attempt' = [t_attempt EXCEPT ![i] = @ + 1]
            /\ UNCHANGED <<t_result, t_outcome, t_state, link_failed, last_done>>
  /\ UNCHANGED <<pc, dup_seen, not_stage2, metadata, accession_list, t_page, results, progress_bar,
                 status_text>>

\* Not a model of the code: enumerate counting from 0.
ReportIndexFromZero == Len(results)

\* enumerate(..., 1): the i of the result that is taken now.
ReportIndex == Len(results) + 1

\* Lines 101-104: the main thread takes the next result in input order,
\* appends it and reports i / len(accession_list) and the result's accession.
Collect ==
  /\ pc = "s2_collect"
  /\ Len(results) < Len(accession_list)
  /\ t_state[NextInOrder] = "done"
  /\ results' = Append(results, t_result[NextInOrder])
  /\ progress_bar' = <<ReportIndex, Len(accession_list)>>
  /\ status_text' = t_result[NextInOrder].accession
  /\ UNCHANGED <<link_failed, pc, dup_seen, not_stage2, metadata, accession_list, t_state, t_attempt,
                 t_requests, t_sleeps, t_outcome, t_result, t_page, last_done>>

\* Lines 106-108 and 193: every result is in; return results.
LinkReturn ==
  /\ pc = "s2_collect"
  /\ AllCollected
  /\ metadata' = results
  /\ LinkLocalsGone(accession_list', t_state', t_attempt', t_requests', t_sleeps',
                    t_outcome', t_result', t_page', last_done', results', progress_bar',
                    status_text')
  /\ pc' = "s3_call"
  /\ UNCHANGED <<link_failed, dup_seen, not_stage2>>

Stage2 ==
  \/ LinkCall
  \/ \E i \in Tasks : TaskStart(i)
  \/ \E i \in Tasks : LinkFetchOk(i)
  \/ \E i \in Tasks : LinkFetchFail(i)
  \/ Collect
  \/ LinkReturn

(***************************************************************************)
(* The PubMed page of a literature ID, as the parser sees it: the rendered  *)
(* text of the page and the text of its <span class="cit">, if it has one.  *)
(***************************************************************************)
NCT == <<"N", "C", "T">>

MkPage(text, has_cit, cit) == [text |-> text, has_cit |-> has_cit, cit |-> cit]

PubmedPages == {
  MkPage(<<"a", " ">> \o NCT \o <<"1", "2", "3", "4", "5", "6", "7", "8", " ", "b">>,
         TRUE, <<"2", "0", "2", "2", " ", "M", "a", "r", " ", "1", "0">>),
  MkPage(NCT \o <<"0", "0", "0", "0", "0", "0", "0", "1", "9">>,
         TRUE, <<"2", "0", "2", "2">>),
  MkPage(NCT \o <<"1", "2", "3", "4", "5", "6", "7">>,
         FALSE, <<>>),
  MkPage(NCT \o <<" ">> \o NCT \o <<"0", "0", "0", "0", "0", "0", "0", "2">>,
         TRUE, <<"J", ".", " ", "2", "0", "2", "3", " ", "F", "e", "b", " ", "3", "0", ";">>),
  MkPage(<<"n", "o", "n", "e">>,
         TRUE, <<"2", "0", "2", "1", " ", "d", "e", "c", " ", "3", "1", "5">>) }

\* What stands in p_html for the page of a fetch that returned None.
NoPage == MkPage(<<>>, FALSE, <<>>)

\* Citation texts put together from a prefix, a year, a month, a day and a
\* suffix, to exercise the date extraction alone.
CitPrefixes == {<<>>, <<"J", ".", " ">>,
                <<"1", "9", "9", "9", " ", "a", "b", "c", " ", "1", ",", " ">>}
CitYears == {<<"2", "0", "2", "2">>, <<"2", "0", "2", "4">>, <<"0", "0", "0", "0">>,
             <<"2", "0", "2">>}
CitMonths == {<<>>, <<" ", "M", "a", "r">>, <<" ", "F", "e", "b">>, <<" ", "d", "e", "c">>,
              <<" ", "x", "y", "z">>, <<" ", "1", "2", "3">>}
CitDays == {<<>>, <<" ", "1", "0">>, <<" ", "2", "9">>, <<" ", "3", "0">>, <<" ", "0">>,
            <<" ", "3", "1", "5">>}
CitSuffixes == {<<>>, <<";", "4", "0">>}

CitTexts ==
  {a \o y \o m \o d \o z :
     a \in CitPrefixes, y \in CitYears, m \in CitMonths, d \in CitDays, z \in CitSuffixes}

DatePages ==
  {MkPage(NCT, TRUE, c) : c \in CitTexts} \cup {MkPage(NCT, FALSE, <<>>)}

\* The literature ID whose page is one of DatePages.
ID1 == <<"1">>

\* response.text of the PubMed page of a literature ID.
PubmedPagesOf(pid) == IF pid = ID1 THEN DatePages ELSE PubmedPages

(***************************************************************************)
(* search_nct_in_abstract (lines 135-139).                                 *)
(***************************************************************************)
NoMatch == <<>>

\* re.search(r'NCT\d{8}', text): the leftmost match, or NoMatch.
RECURSIVE SearchNct(_, _)
SearchNct(text, i) ==
  IF i > Len(text) THEN NoMatch
  ELSE IF MatchesAt(text, NCT, i) /\ Len(DigitRun(text, i + 3, 8)) = 8
       THEN NCT \o DigitRun(text, i + 3, 8)
       ELSE SearchNct(text, i + 1)

\* Not a model of the code: NCT followed by any digits, up to eight of them.
RECURSIVE SearchNctLoose(_, _)
SearchNctLoose(text, i) ==
  IF i > Len(text) THEN <<>>
  ELSE IF MatchesAt(text, NCT, i) /\ DigitRun(text, i + 3, 8) # <<>>
       THEN NCT \o DigitRun(text, i + 3, 8)
       ELSE SearchNctLoose(text, i + 1)

search_nct_loose(html) == SearchNctLoose(html.text, 1)

search_nct_in_abstract(html) == SearchNct(html.text, 1)

NctNotFound == <<"N", "C", "T", " ", "N", "o", "t", " ", "F", "o", "u", "n", "d">>

(***************************************************************************)
(* get_publication_date (lines 119-133).                                   *)
(***************************************************************************)
\* re.search(r'\d{4} \w{3} \d{1,2}', text): the leftmost match, or NoMatch.
RECURSIVE SearchFullDate(_, _)
SearchFullDate(text, i) ==
  IF i + 9 > Len(text) THEN NoMatch
  ELSE IF /\ \A k \in 0..3 : IsDigit(text[i + k])
          /\ text[i + 4] = " "
          /\ \A k \in 5..7 : IsWordChar(text[i + k])
          /\ text[i + 8] = " "
          /\ IsDigit(text[i + 9])
       THEN Slice(text, i, i + 8) \o DigitRun(text, i + 9, 2)
       ELSE SearchFullDate(text, i + 1)

\* re.search(r'\d{4}', text): the leftmost match, or NoMatch.
RECURSIVE SearchYear(_, _)
SearchYear(text, i) ==
  IF i + 3 > Len(text) THEN NoMatch
  ELSE IF \A k \in 0..3 : IsDigit(text[i + k])
       THEN Slice(text, i, i + 3)
       ELSE SearchYear(text, i + 1)

DigitVal(c) == Ord(c) - 48

\* int() of a string of digits.
RECURSIVE ToInt(_)
ToInt(ds) == IF ds = <<>> THEN 0 ELSE 10 * ToInt(SubSeq(ds, 1, Len(ds) - 1)) + DigitVal(ds[Len(ds)])

Uppercase == <<"A", "B", "C", "D", "E", "F", "G", "H", "I", "J", "K", "L", "M",
               "N", "O", "P", "Q", "R", "S", "T", "U", "V", "W", "X", "Y", "Z">>

Lowercase == <<"a", "b", "c", "d", "e", "f", "g", "h", "i", "j", "k", "l", "m",
               "n", "o", "p", "q", "r", "s", "t", "u", "v", "w", "x", "y", "z">>

Lower(c) ==
  IF \E i \in 1..26 : Uppercase[i] = c
  THEN Lowercase[CHOOSE i \in 1..26 : Uppercase[i] = c]
  ELSE c

\* %b: the abbreviated month names, matched without regard to case.
MonthNames == << <<"j", "a", "n">>, <<"f", "e", "b">>, <<"m", "a", "r">>,
                 <<"a", "p", "r">>, <<"m", "a", "y">>, <<"j", "u", "n">>,
                 <<"j", "u", "l">>, <<"a", "u", "g">>, <<"s", "e", "p">>,
                 <<"o", "c", "t">>, <<"n", "o", "v">>, <<"d", "e", "c">> >>

\* The month number of a three-letter name, or 0.
MonthOf(w) ==
  LET lw == [k \in 1..Len(w) |-> Lower(w[k])]
  IN  IF \E m \in 1..12 : MonthNames[m] = lw
      THEN CHOOSE m \in 1..12 : MonthNames[m] = lw
      ELSE 0

IsLeap(y) == (y % 4 = 0 /\ y % 100 # 0) \/ y % 400 = 0

DaysInMonth(y, m) ==
  IF m = 2 THEN (IF IsLeap(y) THEN 29 ELSE 28)
  ELSE IF m \in {4, 6, 9, 11} THEN 30 ELSE 31

\* datetime.strptime(s, "%Y %b %d") for s of the shape the first pattern
\* matches; None stands for the ValueError.
StrptimeYbd(s) ==
  IF Len(s) < 10 \/ s[5] # " " \/ s[9] # " " THEN None
  ELSE LET y == ToInt(Slice(s, 1, 4))
           m == MonthOf(Slice(s, 6, 8))
           d == ToInt(Slice(s, 10, Len(s)))
       IN  IF y >= 1 /\ m >= 1 /\ d >= 1 /\ d <= DaysInMonth(y, m)
           THEN MkDate(y, m, d)
           ELSE None

\* Not a model of the code: no year-only format.
StrptimeYNever(s) == None

\* datetime.strptime(s, "%Y"): four digits and nothing else, year at least 1.
StrptimeY(s) ==
  IF Len(s) = 4 /\ (\A k \in 1..4 : IsDigit(s[k])) /\ ToInt(s) >= 1
  THEN MkDate(ToInt(s), 1, 1)
  ELSE None

\* Lines 124-132: the first pattern or else the second; the first format or
\* else the second, both on the same matched text.
ParseCitation(text) ==
  LET full == SearchFullDate(text, 1)
      match == IF full # NoMatch THEN full ELSE SearchYear(text, 1)
  IN  IF match = NoMatch THEN None
      ELSE IF StrptimeYbd(match) # None THEN StrptimeYbd(match)
      ELSE StrptimeY(match)

get_publication_date(html) ==
  IF html.has_cit THEN ParseCitation(html.cit) ELSE None

(***************************************************************************)
(* process_pubmed_ids (lines 141-167).                                     *)
(***************************************************************************)
Whitespace == {" ", "\t", "\n"}

\* s.split(',')
RECURSIVE SplitComma(_)
SplitComma(s) ==
  IF \E k \in 1..Len(s) : s[k] = ","
  THEN LET k == CHOOSE k \in 1..Len(s) : s[k] = "," /\ \A j \in 1..(k - 1) : s[j] # ","
       IN  <<SubSeq(s, 1, k - 1)>> \o SplitComma(SubSeq(s, k + 1, Len(s)))
  ELSE <<s>>

\* s.strip()
RECURSIVE Strip(_)
Strip(s) ==
  IF s = <<>> THEN s
  ELSE IF Head(s) \in Whitespace THEN Strip(Tail(s))
  ELSE IF s[Len(s)] \in Whitespace THEN Strip(SubSeq(s, 1, Len(s) - 1))
  ELSE s

\* Not a model of the code: the generator without its guard.
HasIdsAlways(entry) == TRUE

\* Line 142: if entry['Pubmed_ID']
HasIds(entry) == entry.Pubmed_ID # <<>>

\* Lines 142-143: the generator; pid.strip() for each entry that has IDs, for
\* each piece of its Pubmed_ID.
RECURSIVE AllPids(_)
AllPids(meta) ==
  IF meta = <<>> THEN <<>>
  ELSE LET pieces == SplitComma(Head(meta).Pubmed_ID)
       IN  (IF HasIds(Head(meta))
            THEN [k \in 1..Len(pieces) |-> Strip(pieces[k])]
            ELSE <<>>) \o AllPids(Tail(meta))

\* sorted(): insertion of x into an ascending list.
RECURSIVE InsertSorted(_, _)
InsertSorted(x, sorted) ==
  IF sorted = <<>> THEN <<x>>
  ELSE IF StrLess(x, Head(sorted)) THEN <<x>> \o sorted
  ELSE <<Head(sorted)>> \o InsertSorted(x, Tail(sorted))

RECURSIVE SortList(_)
SortList(xs) ==
  IF xs = <<>> THEN <<>> ELSE InsertSorted(xs[Len(xs)], SortList(SubSeq(xs, 1, Len(xs) - 1)))

\* Not a model of the code: sorted() without set().
SortedWithoutSet(meta) == SortList(AllPids(meta))

\* Lines 142-143: sorted(set(...)); the set is iterated in some order.
SortedIdSet(meta) ==
  SortList(CHOOSE s \in Perms(Range(AllPids(meta))) : TRUE)

\* batch_size: the caller's batch size.
BatchSizes == (1..MaxBatchSize) \cup {DefaultBatchSize}

Min(a, b) == IF a <= b THEN a ELSE b

\* Line 150: batch = pubmed_ids[i:i+batch_size]
Batch == SubSeq(pubmed_ids, p_i + 1, Min(p_i + batch_size, Len(pubmed_ids)))

\* Lines 155-159: the record of one literature ID.
MkDetail(pid, nct, pub_date) ==
  [Pubmed_ID |-> pid, NCT_Number |-> nct, Publication_Date |-> pub_date]

\* Lines 142-147.
ProcessCall ==
  /\ pc = "s3_call"
  /\ pubmed_ids' = SortedIdSet(metadata)
  /\ \E b \in BatchSizes : batch_size' = b
  /\ p_i' = 0
  /\ p_j' = 0
  /\ p_results' = <<>>
  /\ p_fetched' = <<>>
  /\ p_progress' = <<>>
  /\ p_html' = <<>>
  /\ pc' = "s3_loop"
  /\ UNCHANGED <<link_failed, not_stage3, after_stage3>>

\* Line 152: fetch_pubmed_html(pid) sends its request and waits.
PubmedFetchStart ==
  /\ pc = "s3_loop"
  /\ p_i < Len(pubmed_ids)
  /\ p_j < Len(Batch)
  /\ p_fetched' = Append(p_fetched, Batch[p_j + 1])
  /\ pc' = "s3_fetch"
  /\ UNCHANGED <<not_stage3, after_stage3, batch_size, pubmed_ids, p_i, p_j, p_results,
                 p_progress, p_html>>

\* Lines 152-160 with html present: both extractions run on the page.
PubmedFetchOk ==
  /\ pc = "s3_fetch"
  /\ \E html \in PubmedPagesOf(Batch[p_j + 1]) :
       LET pid == Batch[p_j + 1]
           nct == search_nct_in_abstract(html)
           pub_date == get_publication_date(html)
       IN  /\ p_results' = Append(p_results,
                                  MkDetail(pid, IF nct # NoMatch THEN nct ELSE NctNotFound,
                                           pub_date))
           /\ p_html' = Append(p_html, [got |-> TRUE, html |-> html])
  /\ p_j' = p_j + 1
  /\ pc' = "s3_loop"
  /\ UNCHANGED <<not_stage3, after_stage3, batch_size, pubmed_ids, p_i, p_fetched,
                 p_progress>>

\* Lines 152-160 with html None (fetch_pubmed_html caught the failure).
PubmedFetchFail ==
  /\ pc = "s3_fetch"
  /\ p_results' = Append(p_results, MkDetail(Batch[p_j + 1], NctNotFound, None))
  /\ p_html' = Append(p_html, [got |-> FALSE, html |-> NoPage])
  /\ p_j' = p_j + 1
  /\ pc' = "s3_loop"
  /\ UNCHANGED <<not_stage3, after_stage3, batch_size, pubmed_ids, p_i, p_fetched,
                 p_progress>>

\* Not a model of the code: the items of this batch alone.
ItemsDoneInBatch == Len(Batch)

\* Line 161: i + len(batch)
ItemsDone == p_i + Len(Batch)

\* Lines 161-163 and 149: the batch is over; progress; the next batch.
BatchEnd ==
  /\ pc = "s3_loop"
  /\ p_i < Len(pubmed_ids)
  /\ p_j = Len(Batch)
  /\ p_progress' = Append(p_progress, <<ItemsDone, Len(pubmed_ids)>>)
  /\ p_i' = p_i + batch_size
  /\ p_j' = 0
  /\ UNCHANGED <<pc, not_stage3, after_stage3, batch_size, pubmed_ids, p_results,
                 p_fetched, p_html>>

\* Lines 165-167 and 198: return results; nct_df = pd.DataFrame(results).
ProcessReturn ==
  /\ pc = "s3_loop"
  /\ p_i >= Len(pubmed_ids)
  /\ details' = p_results
  /\ nct_df' = p_results
  /\ ProcLocalsGone(batch_size', pubmed_ids', p_i', p_j', p_results', p_fetched',
                    p_progress', p_html')
  /\ pc' = "filter_call"
  /\ UNCHANGED <<not_stage3, filtered_nct_df, db>>

Stage3 == ProcessCall \/ PubmedFetchStart \/ PubmedFetchOk \/ PubmedFetchFail \/ BatchEnd \/ ProcessReturn

(***************************************************************************)
(* filter_nct (lines 169-174).  A DataFrame is the sequence of its rows; the *)
(* DataFrame built from an empty list has no rows and no columns.           *)
(***************************************************************************)
\* pd.to_datetime(cell, errors='coerce') followed by .dt.date: a date stays the
\* date it is, anything else becomes NaT.
ToDatetimeCoerce(v) == IF v.k = "date" THEN v ELSE NaT

\* Line 170: the column of df is overwritten with the coerced values.
CoerceColumn(df) ==
  [i \in 1..Len(df) |-> [df[i] EXCEPT !.Publication_Date = ToDatetimeCoerce(@)]]

\* Series.notna()
NotNa(v) == v.k = "date"

\* column >= start_date on one cell: a null cell compares False.
CellGE(v, start) == NotNa(v) /\ DateLE(start, v)

\* Not a model of the code: an exclusive upper bound.
CellLT(v, end) == NotNa(v) /\ DateLE(v, end) /\ v # end

\* column <= end_date on one cell: a null cell compares False.
CellLE(v, end) == NotNa(v) /\ DateLE(v, end)

\* str.match(r'^NCT\d+$'): NCT at the start, then digits up to the end of the
\* string or up to a final newline.
MatchNct(s) ==
  /\ MatchesAt(s, NCT, 1)
  /\ LET run == DigitRun(s, 4, Len(s))
     IN  /\ run # <<>>
         /\ \/ 3 + Len(run) = Len(s)
            \/ 3 + Len(run) = Len(s) - 1 /\ s[Len(s)] = "\n"

\* Lines 171-174: the mask of one row of the coerced table.
Mask(row, start, end) ==
  /\ NotNa(row.Publication_Date)
  /\ CellGE(row.Publication_Date, start)
  /\ CellLE(row.Publication_Date, end)
  /\ MatchNct(row.NCT_Number)

\* df.loc[mask]: the rows whose mask is True, in the order of df.
RECURSIVE Loc(_, _, _)
Loc(df, start, end) ==
  IF df = <<>> THEN <<>>
  ELSE (IF Mask(Head(df), start, end) THEN <<Head(df)>> ELSE <<>>)
       \o Loc(Tail(df), start, end)

\* Lines 201-203: df["Publication_Date"] of a DataFrame without columns raises
\* KeyError, which nothing catches; otherwise the column is replaced in place
\* and the selected rows are returned.
FilterCall ==
  /\ pc = "filter_call"
  /\ IF nct_df = <<>>
       THEN /\ pc' = "raised_KeyError"
            /\ UNCHANGED <<nct_df, filtered_nct_df>>
       ELSE /\ nct_df' = CoerceColumn(nct_df)
            /\ filtered_nct_df' = Loc(CoerceColumn(nct_df), start_date, end_date)
            /\ pc' = "filtered"
  /\ UNCHANGED <<inputs, history, stage1_locals, search_locals, details_locals, link_locals,
                 proc_locals, accessions, metadata, details, db>>

(***************************************************************************)
(* The export (lines 205-214).                                             *)
(***************************************************************************)
Export ==
  /\ pc = "filtered"
  /\ db' = [geo_data |-> accessions, pubmed_data |-> metadata, nct_data |-> nct_df,
            saved |-> TRUE]
  /\ pc' = "done"
  /\ UNCHANGED <<inputs, history, stage1_locals, search_locals, details_locals, link_locals,
                 proc_locals, accessions, metadata, details, nct_df, filtered_nct_df>>

Next == RunSearch \/ Stage1 \/ Stage2 \/ Stage3 \/ FilterCall \/ Export

Spec == Init /\ [][Next]_vars

(***************************************************************************)
(* The stage functions called on their own, on every input of a bounded     *)
(* set: fetch_geo_accession_details(id_list), process_pubmed_ids(metadata)  *)
(* followed by filter_nct, and filter_nct(df, start_date, end_date).        *)
(***************************************************************************)
ID9 == <<"9">>
ID10 == <<"1", "0">>
ID7 == <<"7">>

\* The lists of literature IDs of one accession's page: none, one, two
\* different ones, the same one twice.
UnitIdLists == {<<>>, <<ID9>>, <<ID10>>, <<ID10, ID9>>, <<ID10, ID10>>, <<ID7, ID10>>}

UnitAccessions == <<GSE \o <<"1">>, GSE \o <<"2">>, GSE \o <<"3">>, GSE \o <<"4">>>>

\* The lists of LiteratureLink records of at most MaxLinks accessions, the
\* Pubmed_ID of each joined as fetch_pubmed_data joins it.
UnitMetadata ==
  UNION {[1..n -> UnitIdLists] : n \in 0..MaxLinks}

MkLinks(idlists) ==
  [i \in 1..Len(idlists) |->
     [accession |-> UnitAccessions[i], Pubmed_ID |-> Join(idlists[i], CommaSpace)]]

UnitDates == {MkDate(2021, 12, 31), MkDate(2022, 1, 1), MkDate(2022, 3, 10),
              MkDate(2022, 12, 31), MkDate(2023, 1, 1), None}

UnitTrialIds == {NctNotFound,
                 NCT \o <<"1", "2", "3", "4", "5", "6", "7", "8">>,
                 NCT \o <<"7">>,
                 NCT,
                 NCT \o <<"1", "a">>,
                 <<"x">> \o NCT \o <<"1">>}

UnitRows == {MkDetail(ID9, t, d) : t \in UnitTrialIds, d \in UnitDates}

\* The tables of detail records of 1..MaxRows rows.
UnitTables == UNION {[1..n -> UnitRows] : n \in 1..MaxRows}

UnitInit ==
  /\ keyword = <<"c", "a", "n", "c", "e", "r">>
  /\ max_results = NoInt /\ retstart = NoInt /\ total_count = NoInt
  /\ geo_ids = <<>> /\ all_accessions = {} /\ iterations = 0
  /\ first_count = NoCount /\ count_stable = TRUE /\ page_results = NoPages
  /\ SearchLocalsGone(s_attempt, s_requests, s_sleeps, s_outcome)
  /\ d_attempt = 0 /\ accession_numbers = {} /\ d_requests = 0 /\ d_sleeps = <<>>
  /\ d_outcome = "none"
  /\ LinkLocalsGone(accession_list, t_state, t_attempt, t_requests, t_sleeps,
                    t_outcome, t_result, t_page, last_done, results, progress_bar,
                    status_text)
  /\ ProcLocalsGone(batch_size, pubmed_ids, p_i, p_j, p_results, p_fetched, p_progress,
                    p_html)
  /\ accessions = <<>>
  /\ filtered_nct_df = <<>>
  /\ db = [geo_data |-> <<>>, pubmed_data |-> <<>>, nct_data |-> <<>>, saved |-> FALSE]
  /\ first_page = "none"
  /\ link_failed = {}
  /\ dup_seen = FALSE
  /\ \/ /\ pc = "details_call"
        /\ id_list \in IdLists
        /\ metadata = <<>> /\ details = <<>> /\ nct_df = <<>>
        /\ start_date = MkDate(2022, 1, 1) /\ end_date = MkDate(2022, 12, 31)
     \/ /\ pc = "s3_call"
        /\ id_list = <<>>
        /\ \E m \in UnitMetadata : metadata = MkLinks(m)
        /\ details = <<>> /\ nct_df = <<>>
        /\ start_date = MkDate(2022, 1, 1) /\ end_date = MkDate(2022, 12, 31)
     \/ /\ pc = "filter_call"
        /\ id_list = <<>>
        /\ metadata = <<>>
        /\ nct_df \in UnitTables
        /\ details = nct_df
        /\ start_date \in InputDates \ {None}
        /\ end_date \in InputDates \ {None}

UnitNext ==
  \/ DetailsEnter \/ EfetchOk \/ EfetchIncompleteRead \/ EfetchUnexpected
  \/ Stage3
  \/ FilterCall

UnitSpec == UnitInit /\ [][UnitNext]_vars


(***************************************************************************)
(* The link fetcher called on more accessions than the pool has workers,   *)
(* followed by the detail extraction.                                      *)
(***************************************************************************)
DigitSeq == <<"0", "1", "2", "3", "4", "5", "6", "7", "8", "9">>

\* One accession more than the pool has workers: GSE1, GSE10, GSE11, ...
PoolAccessions ==
  [i \in 1..(MaxWorkers + 1) |-> IF i = 1 THEN GSE1 ELSE GSE \o <<"1", DigitSeq[i - 1]>>]

PoolInit ==
  /\ pc = "s2_call"
  /\ keyword = <<"c", "a", "n", "c", "e", "r">>
  /\ start_date = MkDate(2022, 1, 1) /\ end_date = MkDate(2022, 12, 31)
  /\ max_results = NoInt /\ retstart = NoInt /\ total_count = NoInt
  /\ geo_ids = <<>> /\ all_accessions = {} /\ iterations = 0
  /\ first_count = NoCount /\ count_stable = TRUE /\ page_results = NoPages
  /\ SearchLocalsGone(s_attempt, s_requests, s_sleeps, s_outcome)
  /\ DetailsLocalsGone(id_list, d_attempt, accession_numbers, d_requests, d_sleeps,
                       d_outcome)
  /\ LinkLocalsGone(accession_list, t_state, t_attempt, t_requests, t_sleeps,
                    t_outcome, t_result, t_page, last_done, results, progress_bar,
                    status_text)
  /\ ProcLocalsGone(batch_size, pubmed_ids, p_i, p_j, p_results, p_fetched, p_progress,
                    p_html)
  /\ accessions = PoolAccessions
  /\ metadata = <<>>
  /\ details = <<>>
  /\ nct_df = <<>>
  /\ filtered_nct_df = <<>>
  /\ db = [geo_data |-> <<>>, pubmed_data |-> <<>>, nct_data |-> <<>>, saved |-> FALSE]
  /\ first_page = "nonempty"
  /\ link_failed = {}
  /\ dup_seen = FALSE

PoolNext == Stage2 \/ Stage3

PoolSpec == PoolInit /\ [][PoolNext]_vars

(***************************************************************************)
(* process_pubmed_ids called on one literature ID whose page is one of     *)
(* DatePages: the date extraction on many citation texts.                  *)
(***************************************************************************)
DateInit ==
  /\ pc = "s3_call"
  /\ keyword = <<"c", "a", "n", "c", "e", "r">>
  /\ start_date = MkDate(2022, 1, 1) /\ end_date = MkDate(2022, 12, 31)
  /\ max_results = NoInt /\ retstart = NoInt /\ total_count = NoInt
  /\ geo_ids = <<>> /\ all_accessions = {} /\ iterations = 0
  /\ first_count = NoCount /\ count_stable = TRUE /\ page_results = NoPages
  /\ SearchLocalsGone(s_attempt, s_requests, s_sleeps, s_outcome)
  /\ DetailsLocalsGone(id_list, d_attempt, accession_numbers, d_requests, d_sleeps,
                       d_outcome)
  /\ LinkLocalsGone(accession_list, t_state, t_attempt, t_requests, t_sleeps,
                    t_outcome, t_result, t_page, last_done, results, progress_bar,
                    status_text)
  /\ ProcLocalsGone(batch_size, pubmed_ids, p_i, p_j, p_results, p_fetched, p_progress,
                    p_html)
  /\ accessions = <<GSE1>>
  /\ metadata = <<[accession |-> GSE1, Pubmed_ID |-> ID1]>>
  /\ details = <<>>
  /\ nct_df = <<>>
  /\ filtered_nct_df = <<>>
  /\ db = [geo_data |-> <<>>, pubmed_data |-> <<>>, nct_data |-> <<>>, saved |-> FALSE]
  /\ first_page = "nonempty"
  /\ link_failed = {}
  /\ dup_seen = FALSE

DateNext == Stage3

DateSpec == DateInit /\ [][DateNext]_vars

(***************************************************************************)
(* Properties.                                                             *)
(***************************************************************************)
CeilDiv(a, b) == (a + b - 1) \div b

\* The positions inside the while loop of fetch_all_geo_accessions and at its exit.
InLoop ==
  pc \in {"loop_top", "esearch", "searched", "details_call", "efetch", "details_ret",
          "s1_ret"}

\* C1: with the search service reporting the same totalCount on every page, the
\* driving loop runs at most ceil(totalCount / pageSize) + 1 iterations (one
\* search call each; a single one when no page ever arrived), it has stopped
\* only on an empty page or with the advanced offset >= totalCount, and it goes
\* round again only after a non-empty page with the offset still < totalCount.
C1_PaginationTerminates ==
  /\ (InLoop /\ count_stable /\ first_count # NoCount)
       => iterations <= CeilDiv(first_count, max_results) + 1
  /\ (InLoop /\ first_count = NoCount) => iterations <= 1
  /\ pc = "s1_ret" => (geo_ids = <<>> \/ retstart >= total_count)
  /\ (pc = "loop_top" /\ iterations >= 1) => (geo_ids # <<>> /\ retstart < total_count)

\* C1: the loop has stopped after one iteration on a non-empty page for which
\* the service reported totalCount 0.
C1_Witness ==
  /\ pc = "s1_ret"
  /\ iterations = 1
  /\ first_count = 0 /\ count_stable
  /\ geo_ids # <<>>
  /\ retstart = max_results

\* C8: a call of search_geo_accessions issues at most 3 requests, all the same;
\* every request before the last failed transiently and was followed by the same
\* fixed delay; a success or an unexpected error ends the call with no further
\* request and no further delay; an unexpected error and three transient
\* failures both end it with the empty page and count 0.
C8_SearchFailSoft ==
  /\ Len(s_requests) <= 3
  /\ \A k \in 1..Len(s_requests) : s_requests[k] = s_requests[1]
  /\ \A k \in 1..Len(s_sleeps) : s_sleeps[k] = s_sleeps[1]
  /\ pc = "esearch" => (s_outcome = "none" /\ Len(s_sleeps) = Len(s_requests))
  /\ pc = "searched" =>
       /\ s_outcome \in {"ok", "unexpected", "exhausted"}
       /\ s_outcome = "ok" => Len(s_sleeps) = Len(s_requests) - 1
       /\ s_outcome = "unexpected" =>
            (Len(s_sleeps) = Len(s_requests) - 1 /\ geo_ids = <<>> /\ total_count = 0)
       /\ s_outcome = "exhausted" =>
            (Len(s_requests) = 3 /\ Len(s_sleeps) = 3 /\ geo_ids = <<>> /\ total_count = 0)

\* C8: a transient failure was retried and the retry met an unexpected error.
C8_Witness ==
  /\ pc = "searched"
  /\ s_outcome = "unexpected"
  /\ Len(s_requests) = 2
  /\ Len(s_sleeps) = 1

\* C9: a call of fetch_geo_accession_details on a non-empty batch issues at most
\* 3 bulk fetches, each one after a partial-transfer failure of the one before
\* and a delay of 1, 2, 4; a success ends it with no further fetch; any other
\* error, and three partial transfers, end it with an empty result; an empty
\* batch gives an empty result with no fetch at all.
C9_ResolverRetry ==
  /\ d_requests <= 3
  /\ Len(d_sleeps) <= 3
  /\ \A k \in 1..Len(d_sleeps) : d_sleeps[k] = <<1, 2, 4>>[k]
  /\ pc = "efetch" => (d_outcome = "none" /\ id_list # <<>> /\ Len(d_sleeps) = d_requests)
  /\ pc = "details_ret" =>
       /\ d_outcome \in {"ok", "unexpected", "exhausted", "empty_input"}
       /\ d_outcome = "empty_input" <=> id_list = <<>>
       /\ d_outcome = "empty_input" => (d_requests = 0 /\ accession_numbers = {})
       /\ d_outcome = "ok" => (d_requests >= 1 /\ Len(d_sleeps) = d_requests - 1)
       /\ d_outcome = "unexpected" =>
            (d_requests >= 1 /\ Len(d_sleeps) = d_requests - 1 /\ accession_numbers = {})
       /\ d_outcome = "exhausted" =>
            (d_requests = 3 /\ d_sleeps = <<1, 2, 4>> /\ accession_numbers = {})

\* C9: three partial transfers in a row on a non-empty batch.
C9_Witness ==
  /\ pc = "details_ret"
  /\ id_list # <<>>
  /\ d_outcome = "exhausted"
  /\ d_requests = 3

\* Where the literature IDs are written in a Pubmed_ID cell: its maximal runs
\* of digits, as <<first, last>> positions.
MaximalIdsIn(s) ==
  {r \in {<<i, j>> \in (1..Len(s)) \X (1..Len(s)) : i <= j} :
     /\ \A k \in r[1]..r[2] : IsDigit(s[k])
     /\ r[1] = 1 \/ ~IsDigit(s[r[1] - 1])
     /\ r[2] = Len(s) \/ ~IsDigit(s[r[2] + 1])}

\* The set of literature IDs of a list of LiteratureLink records.
IdSetOf(meta) ==
  UNION {{Slice(meta[n].Pubmed_ID, r[1], r[2]) : r \in MaximalIdsIn(meta[n].Pubmed_ID)} :
           n \in 1..Len(meta)}

\* A list of strings in strictly ascending order (so without a repetition).
StrictlyAscending(ids) == \A k \in 1..(Len(ids) - 1) : StrLess(ids[k], ids[k + 1])

IsPrefix(a, b) == Len(a) <= Len(b) /\ \A k \in 1..Len(a) : a[k] = b[k]

PidsOf(recs) == [k \in 1..Len(recs) |-> recs[k].Pubmed_ID]

\* C5: process_pubmed_ids works on the distinct literature IDs of its input in
\* ascending (string) order: the ID list is strictly ascending and holds exactly
\* the IDs written in the records; the fetches made so far are the first IDs of
\* that list, one fetch and one emitted record per ID; when the loop is over
\* every ID was fetched exactly once, and the list to return has one record per
\* distinct ID in that order.
C5_Dedup ==
  pc = "s3_loop" =>
    /\ StrictlyAscending(pubmed_ids)
    /\ Range(pubmed_ids) = IdSetOf(metadata)
    /\ IsPrefix(p_fetched, pubmed_ids)
    /\ PidsOf(p_results) = p_fetched
    /\ Len(p_fetched) = Min(p_i, Len(pubmed_ids)) + p_j
    /\ p_i >= Len(pubmed_ids) => p_fetched = pubmed_ids

\* C5: two accessions both referenced literature ID 10, one of them also 9; the
\* extractor returned one record for 10 and one for 9.
C5_Witness ==
  /\ pc = "s3_loop"
  /\ p_i >= Len(pubmed_ids)
  /\ Len(metadata) = 2
  /\ ID10 \in IdSetOf(<<metadata[1]>>) \cap IdSetOf(<<metadata[2]>>)
  /\ PidsOf(p_results) = <<ID10, ID9>>

\* C6: a link-fetch task issues at most 3 requests, each one after a failure of
\* the one before and a wait of 1, 2, 4; it stops at the first success; after 3
\* failures (and the waits 1, 2, 4) it returns the record of its accession with
\* an empty Pubmed_ID: every task ends with a record, none with an exception.
C6_LinkRetry ==
  \A i \in Tasks :
    /\ t_requests[i] <= 3
    /\ Len(t_sleeps[i]) <= 3
    /\ \A k \in 1..Len(t_sleeps[i]) : t_sleeps[i][k] = <<1, 2, 4>>[k]
    /\ t_state[i] = "queued" => t_requests[i] = 0
    /\ t_state[i] = "running" =>
         (t_outcome[i] = "none" /\ Len(t_sleeps[i]) = t_requests[i])
    /\ t_state[i] = "done" =>
         /\ t_outcome[i] \in {"ok", "exhausted"}
         /\ t_result[i].accession = accession_list[i]
         /\ t_outcome[i] = "ok" =>
              (t_requests[i] >= 1 /\ Len(t_sleeps[i]) = t_requests[i] - 1)
         /\ t_outcome[i] = "exhausted" =>
              /\ t_requests[i] = 3
              /\ t_sleeps[i] = <<1, 2, 4>>
              /\ t_result[i].Pubmed_ID = <<>>

\* C6: a task whose three attempts all failed.
C6_Witness ==
  \E i \in Tasks :
    /\ t_state[i] = "done"
    /\ t_outcome[i] = "exhausted"
    /\ t_requests[i] = 3

\* C7: the LiteratureLink of an accession whose link fetch used up its retries
\* has an empty Pubmed_ID; the ID list of the detail extractor holds no empty
\* ID and only IDs written in the record of an accession that did not fail;
\* only IDs of that list are fetched and get a detail record.
C7_ScenarioB ==
  /\ \A i \in Tasks : (t_state[i] = "done" /\ accession_list[i] \in link_failed)
                        => t_result[i].Pubmed_ID = <<>>
  /\ \A n \in 1..Len(metadata) :
       metadata[n].accession \in link_failed => metadata[n].Pubmed_ID = <<>>
  /\ pc = "s3_loop" =>
       /\ <<>> \notin Range(pubmed_ids)
       /\ \A id \in Range(pubmed_ids) :
            \E n \in 1..Len(metadata) :
              /\ metadata[n].accession \notin link_failed
              /\ id \in IdSetOf(<<metadata[n]>>)
       /\ Range(p_fetched) \subseteq Range(pubmed_ids)
       /\ Range(PidsOf(p_results)) \subseteq Range(pubmed_ids)

\* C7: one accession's fetch failed for good, another's found IDs, and the
\* detail extractor has fetched for the latter.
C7_Witness ==
  /\ pc = "s3_loop"
  /\ link_failed # {}
  /\ Len(metadata) = 2
  /\ p_fetched # <<>>

\* The trial IDs that are NCT followed by digits only.
IsNctDigits(s) ==
  /\ Len(s) >= 4
  /\ SubSeq(s, 1, 3) = NCT
  /\ \A k \in 4..Len(s) : s[k] \in Digits

\* The records the filter must keep: the date is there, inside the inclusive
\* range, and the trial ID is NCT followed by digits only.
Included(r) ==
  /\ r.Publication_Date.k = "date"
  /\ DateLE(start_date, r.Publication_Date)
  /\ DateLE(r.Publication_Date, end_date)
  /\ IsNctDigits(r.NCT_Number)

\* C3: on a non-empty table filter_nct returns, in order, exactly the records
\* of its input whose date is present and within [startDate, endDate] inclusive
\* and whose trial ID is NCT followed by digits only; none with the sentinel or
\* without a date; and it raises only on a table without records.
C3_FilterCorrect ==
  /\ pc = "filtered" =>
       /\ filtered_nct_df = SelectSeq(details, Included)
       /\ \A k \in 1..Len(filtered_nct_df) :
            /\ filtered_nct_df[k].NCT_Number # NctNotFound
            /\ filtered_nct_df[k].Publication_Date \notin {None, NaT}
       /\ \A k \in 1..Len(details) :
            (/\ details[k].Publication_Date \in {start_date, end_date}
             /\ DateLE(start_date, end_date)
             /\ IsNctDigits(details[k].NCT_Number))
              => details[k] \in Range(filtered_nct_df)
  /\ pc = "raised_KeyError" => details = <<>>

\* C3: a table of a record without a date and a record dated endDate, both with
\* a valid trial ID: the second alone is returned.
C3_Witness ==
  /\ pc = "filtered"
  /\ Len(details) = 2
  /\ details[1].Publication_Date = None /\ IsNctDigits(details[1].NCT_Number)
  /\ details[2].Publication_Date = end_date /\ IsNctDigits(details[2].NCT_Number)
  /\ filtered_nct_df = <<details[2]>>

\* Whether a is b with some elements left out (the order kept).
RECURSIVE IsSubsequence(_, _)
IsSubsequence(a, b) ==
  IF a = <<>> THEN TRUE
  ELSE IF b = <<>> THEN FALSE
  ELSE IF Head(a) = Head(b) THEN IsSubsequence(Tail(a), Tail(b))
  ELSE IsSubsequence(a, Tail(b))

\* C4: filter_nct leaves its input table as the detail extractor returned it
\* (and so does the nct_data table of the export), and its output keeps the
\* order of the input.
C4_FilterPure ==
  /\ pc = "filtered" => (nct_df = details /\ IsSubsequence(filtered_nct_df, details))
  /\ pc = "done" => db.nct_data = details

\* C2: a run whose first search page was empty raises no error and ends with
\* the export of three empty tables.
C2_ScenarioA ==
  first_page = "empty" =>
    /\ pc # "raised_KeyError"
    /\ pc = "done" => (db.geo_data = <<>> /\ db.pubmed_data = <<>> /\ db.nct_data = <<>>)

\* Every call of a remote service returns or fails, and every thread goes on
\* running: a step that can be taken is taken.
FairSpec == Spec /\ WF_vars(Next)

\* C10: each stage, once begun, comes to its end with a result: the paginated
\* search hands over its accessions, the link fetch its records, the detail
\* extraction its details, and the filter its filtered table.
C10_StagesComplete ==
  /\ (pc = "s1_call") ~> (pc = "s2_call")
  /\ (pc = "s2_call") ~> (pc = "s3_call")
  /\ (pc = "s3_call") ~> (pc = "filter_call")
  /\ (pc = "filter_call") ~> (pc = "filtered")


(***************************************************************************)
(* The accession set of the paginated search.                              *)
(***************************************************************************)
\* C11: the list fetch_all_geo_accessions returned holds no accession twice,
\* however many pages or matches inside one page's text held that accession.
C11_NoDuplicateAccession == ~HasRepeats(accessions)

\* Some accession was found more than once and the list was returned.
C11_Witness == pc = "s2_call" /\ dup_seen /\ accessions # <<>>

\* The positions of fetch_all_geo_accessions between its entry and its return.
InStage1 ==
  pc \in {"loop_top", "esearch", "searched", "details_call", "efetch", "details_ret",
          "s1_ret"}

\* The union of what the resolver returned for the pages so far.
ResolvedSoFar == page_results.accessions

DegradedOutcomes == {"exhausted", "unexpected"}

\* C19: inside the loop the accumulated set only grows and is the union of
\* the resolver's results; the returned list holds exactly that union; after
\* a failed resolver call the offset still advances and the next page is
\* requested unless the offset has reached the count; a search that degrades
\* to an empty page ends the loop with the set as it was.
C19_PartialDataKept ==
  [][ /\ (InStage1 /\ pc' # "s2_call") => all_accessions \subseteq all_accessions'
      /\ InStage1 => all_accessions = ResolvedSoFar
      /\ pc = "s1_ret" =>
            (pc' = "s2_call" /\ Range(accessions') = ResolvedSoFar
               /\ Len(accessions') = Cardinality(ResolvedSoFar))
      /\ (pc = "details_ret" /\ d_outcome \in DegradedOutcomes) =>
            /\ accession_numbers = {}
            /\ retstart' = retstart + max_results
            /\ all_accessions' = all_accessions
            /\ pc' = IF retstart' < total_count THEN "loop_top" ELSE "s1_ret"
      /\ (pc = "loop_top" /\ iterations >= 1) =>
            (pc' = "esearch" /\ retstart' = iterations * max_results)
      /\ (pc = "searched" /\ s_outcome \in DegradedOutcomes) =>
            (geo_ids = <<>> /\ pc' = "s1_ret" /\ all_accessions' = all_accessions)
    ]_vars

\* The resolver failed on one of the first two pages, the search degraded on
\* the third, and the accessions of the other page are still there.
C19_Witness ==
  /\ pc = "searched"
  /\ s_outcome \in DegradedOutcomes
  /\ iterations = 3
  /\ page_results.failed
  /\ all_accessions # {}

(***************************************************************************)
(* The concurrent link fetcher.                                            *)
(***************************************************************************)
\* The record a completed task must have produced: its own accession with the
\* IDs of the page that task received, or with no ID when its retries ran out.
TaskRecord(i) ==
  [accession |-> accession_list[i],
   Pubmed_ID |-> IF t_outcome[i] = "ok"
                   THEN Join(ExtractPubmedIds(t_page[i]), CommaSpace)
                   ELSE <<>>]

\* C12: whatever the order in which the tasks run and complete, the record at
\* position i of the results is the record of task i (the accession at input
\* position i with the IDs of that task's own page), and the list returned
\* has one record per input accession.
C12_LinkAssociation ==
  [][ pc = "s2_collect" =>
        /\ Len(results) <= Len(accession_list)
        /\ \A i \in 1..Len(results) : t_state[i] = "done" /\ results[i] = TaskRecord(i)
        /\ \A i \in Completed : t_result[i] = TaskRecord(i)
        /\ pc' = "s3_call" =>
             /\ Len(results) = Len(accession_list)
             /\ metadata' = results
             /\ \A i \in 1..Len(accessions) : metadata'[i].accession = accessions[i]
    ]_vars

\* Two tasks received different pages, the first after a failed attempt, and
\* both records were collected.
C12_Witness ==
  /\ pc = "s2_collect"
  /\ Len(results) = 2
  /\ t_outcome[1] = "ok" /\ t_outcome[2] = "ok"
  /\ t_page[1] # t_page[2]
  /\ results[1].Pubmed_ID # results[2].Pubmed_ID
  /\ t_requests[1] > 1

\* C13: the accession list changes only when the search loop returns, and no
\* link task exists before that; a detail fetch is sent only when no link task
\* is left and the metadata holds the collected record of every accession;
\* the filter is entered only with a detail for every literature ID.
C13_StageBarriers ==
  [][ /\ accessions' # accessions => (pc = "s1_ret" /\ t_state = <<>>)
      /\ pc = "s2_collect" =>
           (~InStage1 /\ accession_list = accessions /\ accessions' = accessions
              /\ p_fetched = <<>> /\ p_fetched' = <<>>)
      /\ metadata' # metadata =>
           (Completed = Tasks /\ Len(results) = Len(accession_list) /\ metadata' = results)
      /\ Len(p_fetched') > Len(p_fetched) =>
           /\ t_state = <<>> /\ results = <<>>
           /\ Len(metadata) = Len(accessions)
           /\ \A i \in 1..Len(accessions) : metadata[i].accession = accessions[i]
           /\ metadata' = metadata
      /\ pc' = "filter_call" =>
           /\ PidsOf(details') = SortedIdSet(metadata)
           /\ filtered_nct_df = <<>>
      /\ filtered_nct_df' # filtered_nct_df =>
           (pc = "filter_call" /\ PidsOf(details) = SortedIdSet(metadata))
    ]_vars

\* A detail fetch is in flight after the records of two accessions were
\* collected.
C13_Witness ==
  /\ pc = "s3_fetch"
  /\ Len(accessions) = 2
  /\ Len(metadata) = 2

\* C14: at most max_workers link tasks run at the same time, there is one
\* task per input accession and it works on that accession; in the detail
\* extraction at most one page fetch is in flight.
C14_BoundedConcurrency ==
  /\ pc = "s2_collect" =>
       /\ Cardinality(Running) <= MaxWorkers
       /\ DOMAIN t_state = 1..Len(accession_list)
       /\ \A i \in Completed : t_result[i].accession = accession_list[i]
  /\ pc \in {"s3_loop", "s3_fetch"} =>
       /\ Len(p_fetched) - Len(p_results) \in {0, 1}
       /\ (Len(p_fetched) - Len(p_results) = 1) <=> (pc = "s3_fetch")

\* Every worker is busy and a task is waiting for one.
C14_Witness ==
  /\ pc = "s2_collect"
  /\ Cardinality(Running) = MaxWorkers
  /\ \E i \in Tasks : t_state[i] = "queued"

IsNct8(s) == Len(s) = 11 /\ SubSeq(s, 1, 3) = NCT /\ \A k \in 4..11 : IsDigit(s[k])

\* The places of a text where NCT is followed by at least eight digits.
Nct8Places(text) ==
  {i \in 1..Len(text) :
     /\ i + 10 <= Len(text)
     /\ SubSeq(text, i, i + 2) = NCT
     /\ \A k \in (i + 3)..(i + 10) : IsDigit(text[k])}

InStage3 == pc \in {"s3_loop", "s3_fetch"}

\* C16: the record of an ID whose fetch failed is the sentinel with no date,
\* whatever a page would have held; the trial ID of every record is NCT with
\* exactly eight digits, found in the page of that ID, or the sentinel when
\* the page has none; a failure does not end the loop: when the loop is over
\* there is one record per ID.
C16_FailuresAreData ==
  InStage3 =>
    /\ Len(p_html) = Len(p_results)
    /\ \A k \in 1..Len(p_results) :
         LET rec == p_results[k]
             got == p_html[k].got
             text == p_html[k].html.text
         IN  /\ ~got => rec = MkDetail(p_fetched[k], NctNotFound, None)
             /\ rec.NCT_Number = NctNotFound \/ IsNct8(rec.NCT_Number)
             /\ (got /\ Nct8Places(text) = {}) => rec.NCT_Number = NctNotFound
             /\ (got /\ Nct8Places(text) # {}) =>
                  \E i \in Nct8Places(text) :
                    /\ rec.NCT_Number = SubSeq(text, i, i + 10)
                    /\ \A j \in Nct8Places(text) : i <= j
    /\ (pc = "s3_loop" /\ p_i >= Len(pubmed_ids)) => Len(p_results) = Len(pubmed_ids)

\* The first of three fetches failed, the two after it (each in a batch of its
\* own) arrived, one with a trial ID and one without.
C16_Witness ==
  /\ pc = "s3_loop"
  /\ batch_size = 1
  /\ Len(pubmed_ids) = 3
  /\ p_i >= Len(pubmed_ids)
  /\ ~p_html[1].got
  /\ p_html[2].got /\ IsNct8(p_results[2].NCT_Number)
  /\ p_html[3].got /\ p_results[3].NCT_Number = NctNotFound

\* C17: one report after each batch, giving (records so far) / (number of
\* IDs); the k-th report is min(k * batch_size, total) / total, so the values
\* grow strictly, lie in (0, 1] and end at 1; with no ID there is no report
\* (and no division).
C17_BatchProgress ==
  [][ InStage3 =>
        LET total == Len(pubmed_ids) IN
        /\ \A k \in 1..Len(p_progress) :
             /\ total > 0
             /\ p_progress[k] = <<Min(k * batch_size, total), total>>
             /\ 0 < p_progress[k][1] /\ p_progress[k][1] <= p_progress[k][2]
             /\ k > 1 => p_progress[k - 1][1] < p_progress[k][1]
        /\ Len(p_progress') > Len(p_progress) =>
             /\ Len(p_progress') = Len(p_progress) + 1
             /\ p_progress'[Len(p_progress')] = <<Len(p_results), total>>
             /\ Len(p_results) = Min(Len(p_progress') * batch_size, total)
        /\ pc' = "filter_call" =>
             /\ total = 0 => p_progress = <<>>
             /\ total > 0 =>
                  /\ Len(p_progress) = CeilDiv(total, batch_size)
                  /\ p_progress[Len(p_progress)] = <<total, total>>
    ]_vars

\* Three IDs in batches of two: the reports were 2/3 and 3/3.
C17_Witness ==
  /\ pc = "s3_loop"
  /\ batch_size = 2
  /\ p_progress = << <<2, 3>>, <<3, 3>> >>

\* C17: an extraction with no literature ID came to its end without a report.
C17_WitnessEmpty ==
  /\ pc = "s3_loop"
  /\ pubmed_ids = <<>>
  /\ p_progress = <<>>

(***************************************************************************)
(* The publication date.                                                   *)
(***************************************************************************)
\* The places of a text where four digits stand.
YearPlaces(t) == {i \in 1..(Len(t) - 3) : \A k \in 0..3 : IsDigit(t[i + k])}

\* The places of a text where "YYYY www D" stands.
FullPlaces(t) ==
  {i \in 1..(Len(t) - 9) :
     /\ \A k \in 0..3 : IsDigit(t[i + k])
     /\ t[i + 4] = " "
     /\ \A k \in 5..7 : IsWordChar(t[i + k])
     /\ t[i + 8] = " "
     /\ IsDigit(t[i + 9])}

Leftmost(S) == CHOOSE i \in S : \A j \in S : i <= j

\* The number a digit stands for, by its place among the digits.
ValueOf(c) == (CHOOSE n \in 1..10 : DigitSeq[n] = c) - 1

Year4(t, i) ==
  1000 * ValueOf(t[i]) + 100 * ValueOf(t[i + 1]) + 10 * ValueOf(t[i + 2]) + ValueOf(t[i + 3])

\* The day written at place i: one digit, or two when a second one follows.
DayAt(t, i) ==
  IF i + 1 <= Len(t) /\ IsDigit(t[i + 1])
  THEN 10 * ValueOf(t[i]) + ValueOf(t[i + 1])
  ELSE ValueOf(t[i])

\* What the claim says the date of a page is.
ExpectedDate(html) ==
  IF ~html.has_cit \/ YearPlaces(html.cit) = {} THEN None
  ELSE IF FullPlaces(html.cit) # {}
    THEN LET t == html.cit
             i == Leftmost(FullPlaces(t))
             y == Year4(t, i)
             m == MonthOf(Slice(t, i + 5, i + 7))
             d == DayAt(t, i + 9)
         IN  IF y >= 1 /\ m >= 1 /\ d >= 1 /\ d <= DaysInMonth(y, m)
             THEN [k |-> "date", y |-> y, m |-> m, d |-> d]
             ELSE None
    ELSE LET y == Year4(html.cit, Leftmost(YearPlaces(html.cit)))
         IN  IF y >= 1 THEN [k |-> "date", y |-> y, m |-> 1, d |-> 1] ELSE None

Cit2022Mar10 == <<"2", "0", "2", "2", " ", "M", "a", "r", " ", "1", "0">>
Cit2022 == <<"2", "0", "2", "2">>

\* C18: for every page that arrived, the date of the record is: none when the
\* page has no citation element or its text has no four digits in a row; the
\* date written at the leftmost "YYYY www D" when its month and day are valid
\* and none when they are not; the first of January of the leftmost four
\* digits when the text has no "YYYY www D".  "2022 Mar 10" gives 2022-03-10
\* and "2022" gives 2022-01-01.
C18_PublicationDate ==
  InStage3 =>
    \A k \in 1..Len(p_results) :
      p_html[k].got =>
        LET html == p_html[k].html
            pub_date == p_results[k].Publication_Date
        IN  /\ pub_date = ExpectedDate(html)
            /\ (html.has_cit /\ html.cit = Cit2022Mar10) =>
                 pub_date = [k |-> "date", y |-> 2022, m |-> 3, d |-> 10]
            /\ (html.has_cit /\ html.cit = Cit2022) =>
                 pub_date = [k |-> "date", y |-> 2022, m |-> 1, d |-> 1]
            /\ (html.has_cit /\ FullPlaces(html.cit) = {} /\ YearPlaces(html.cit) # {}
                  /\ Year4(html.cit, Leftmost(YearPlaces(html.cit))) >= 1) =>
                 (pub_date.k = "date" /\ pub_date.m = 1 /\ pub_date.d = 1)
            /\ ~html.has_cit => pub_date = None

\* The citation "J. 2022;40" has a year and no full date: the record has the
\* first of January 2022.
C18_Witness ==
  /\ pc = "s3_loop"
  /\ Len(p_results) = 1
  /\ p_html[1].got
  /\ p_html[1].html.cit = <<"J", ".", " ", "2", "0", "2", "2", ";", "4", "0">>
  /\ p_results[1].Publication_Date = [k |-> "date", y |-> 2022, m |-> 1, d |-> 1]

============================================================================
